---- MODULE Spec2Model ----
(***************************************************************************)
(* Instance generators for the drone persistent-monitoring problem:        *)
(*   src/data/generate_from_distance_matrix.py  (distance-matrix input)    *)
(*   src/data/generate_period.py                (Solomon coordinate input) *)
(* The model covers the two loaders, the two builders, the writer and the  *)
(* two batch drivers (the __main__ blocks).                                *)
(***************************************************************************)
EXTENDS Integers, Sequences, FiniteSets, TLC

(***************************************************************************)
(* Program constants                                                       *)
(***************************************************************************)
INFINITY_DISTANCE == 10000000

INFINITY_PERIOD == 100000

DIAGONAL_MARKER == 1111112

\* number of header lines of a Solomon file skipped by generate_period_v2
SOLOMON_HEADER_LINES == 9

(***************************************************************************)
(* Python float arithmetic (IEEE-754 binary64, round to nearest even).     *)
(* A positive float is [m |-> <<l1, l2, l3, l4>>, e |-> k]: its 53-bit     *)
(* mantissa M = l1 + l2*B + l3*B^2 + l4*B^3 in limbs of 14 bits (B = 2^14, *)
(* 2^52 <= M < 2^53), and the exponent of its last bit: the value is       *)
(* M * 2^k.  Zero is FZero.  Only non-negative values occur in the         *)
(* generators, all below 2^31.                                             *)
(***************************************************************************)
MANT == 53

LIMB == 14

LimbBase == 16384

FZero == [m |-> <<0, 0, 0, 0>>, e |-> 0]

RECURSIVE Pow2R(_)
Pow2R(n) == IF n = 0 THEN 1 ELSE 2 * Pow2R(n - 1)

Pow2Table == [n \in 0..30 |-> Pow2R(n)]

Pow2(n) == Pow2Table[n]

RECURSIVE BitLen(_)
BitLen(n) == IF n = 0 THEN 0 ELSE 1 + BitLen(n \div 2)

\* F applied to the value of v, which is computed once
With(v, F(_)) == CHOOSE r \in {F(w) : w \in {v}} : TRUE

\* carry propagation: the limbs of the number whose limb k holds cols[k]
\* before the carries, least significant first
RECURSIVE Carry(_, _, _)
Carry(cols, k, carry) ==
    IF k > Len(cols) THEN <<>>
    ELSE With(cols[k] + carry, LAMBDA v :
             <<v % LimbBase>> \o Carry(cols, k + 1, v \div LimbBase))

\* round-half-even of the exact value (m, then a guard bit and a sticky
\* flag) whose last kept bit has exponent e
FRound(m, guard, sticky, e) ==
    IF ~(guard = 1 /\ (sticky \/ m[1] % 2 = 1)) THEN [m |-> m, e |-> e]
    ELSE With(Carry(<<m[1] + 1, m[2], m[3], m[4]>>, 1, 0), LAMBDA inc :
             IF inc[4] < Pow2(MANT - 3 * LIMB) THEN [m |-> inc, e |-> e]
             ELSE [m |-> <<0, 0, 0, Pow2(MANT - 3 * LIMB - 1)>>, e |-> e + 1])

\* float(n) for an integer 0 <= n < 2^31 (exact)
IntToFloat(n) ==
    IF n = 0 THEN FZero
    ELSE LET L == BitLen(n)
             u == MANT - L
             q == u \div LIMB
             c == u % LIMB
         IN  With(Carry(<<(n % LimbBase) * Pow2(c), (n \div LimbBase) * Pow2(c), 0, 0>>,
                        1, 0), LAMBDA t :
                 [m |-> [i \in 1..4 |-> IF i > q THEN t[i - q] ELSE 0], e |-> -u])

\* number of doublings of r (0 < r) needed to reach b
RECURSIVE LeadShift(_, _)
LeadShift(r, b) == IF r >= b THEN 0 ELSE 1 + LeadShift(2 * r, b)

\* one step of the long division by b: the next `bits` quotient bits of the
\* remainder r, and the new remainder
DivStep(r, b, bits) == [d |-> (r * Pow2(bits)) \div b, r |-> (r * Pow2(bits)) % b]

\* Python's a / b for integers a >= 0 and 0 < b < 2^17 with a / b < 2^12:
\* the correctly rounded quotient.  The long division yields the 12 leading
\* bits top, then three limbs, the last bit of which is the guard bit.
FDiv(a, b) ==
    IF a = 0 THEN FZero
    ELSE LET q0 == a \div b
             L  == BitLen(q0)
             z  == IF q0 > 0 THEN 0 ELSE LeadShift(a, b) - 1
             r0 == IF q0 > 0 THEN a % b ELSE a * Pow2(z)
         IN  With(DivStep(r0, b, 12 - L), LAMBDA s1 :
             With(DivStep(s1.r, b, LIMB), LAMBDA s2 :
             With(DivStep(s2.r, b, LIMB), LAMBDA s3 :
             With(DivStep(s3.r, b, LIMB), LAMBDA s4 :
                 LET top  == q0 * Pow2(12 - L) + s1.d
                     half == LimbBase \div 2
                 IN  FRound(<<(s3.d % 2) * half + s4.d \div 2,
                              (s2.d % 2) * half + s3.d \div 2,
                              (top % 2) * half + s2.d \div 2,
                              top \div 2>>,
                            s4.d % 2, s4.r # 0, L - MANT - z)))))

\* column k (1..7) of the schoolbook product of the limbs a and b
Column(a, b, k) ==
    LET t(i) == IF i >= 1 /\ i <= 4 /\ k + 1 - i >= 1 /\ k + 1 - i <= 4
                THEN a[i] * b[k + 1 - i] ELSE 0
    IN  t(1) + t(2) + t(3) + t(4)

\* the 8 limbs of the exact product of two mantissas
ProdLimbs(x, y) ==
    With(x.m, LAMBDA a : With(y.m, LAMBDA b :
        Carry([k \in 1..8 |-> IF k <= 7 THEN Column(a, b, k) ELSE 0], 1, 0)))

\* the product of two non-zero floats: the exact product has 105 or 106
\* bits, of which the leading 53 are kept
FMulNonZero(x, y) ==
    With(ProdLimbs(x, y), LAMBDA p :
        LET r == IF p[8] >= Pow2(2 * MANT - 7 * LIMB - 1) THEN 11 ELSE 10
            q(i) == p[i + 3] \div Pow2(r)
                    + (p[i + 4] % Pow2(r)) * Pow2(LIMB - r)
        IN  FRound(<<q(1), q(2), q(3), q(4)>>,
                   (p[4] \div Pow2(r - 1)) % 2,
                   p[4] % Pow2(r - 1) # 0 \/ p[3] # 0 \/ p[2] # 0 \/ p[1] # 0,
                   x.e + y.e + 3 * LIMB + r))

\* Python's x * y on floats: the exact product rounded to 53 bits
FMul(x, y) ==
    With(x, LAMBDA a : With(y, LAMBDA b :
        IF a = FZero \/ b = FZero THEN FZero ELSE FMulNonZero(a, b)))

\* floor(M / 2^k) and M mod 2^k # 0 for the mantissa limbs m, 0 < k < 53
ShiftRight(m, k) ==
    LET q == k \div LIMB
        r == k % LIMB
        t(i) == IF i < q + 1 THEN 0
                ELSE IF i = q + 1 THEN m[i] \div Pow2(r)
                ELSE m[i] * Pow2(LIMB * (i - q - 1) - r)
    IN  t(1) + t(2) + t(3) + t(4)

ShiftLoses(m, k) ==
    LET q == k \div LIMB
        r == k % LIMB
    IN  m[q + 1] % Pow2(r) # 0 \/ \E i \in 1..q : m[i] # 0

\* integer part of a float below 2^31 (so the exponent of its last bit is
\* negative)
FTrunc(x) ==
    IF x = FZero \/ x.e <= -MANT THEN 0 ELSE ShiftRight(x.m, -x.e)

FHasFraction(x) ==
    x # FZero /\ (x.e <= -MANT \/ ShiftLoses(x.m, -x.e))

\* math.ceil(x)
math_ceil(x) == With(x, LAMBDA v : FTrunc(v) + (IF FHasFraction(v) THEN 1 ELSE 0))

\* int(x)
int(x) == With(x, LAMBDA v : FTrunc(v))

(***************************************************************************)
(* Python list helpers                                                     *)
(***************************************************************************)
Range(s) == {s[k] : k \in 1..Len(s)}

\* max(list), for a non-empty list of integers
Max(s) == CHOOSE v \in Range(s) : \A w \in Range(s) : w <= v

\* [e for e in s if Keep(e)]
Filter(s, Keep(_)) == SelectSeq(s, Keep)

(***************************************************************************)
(* Input files.  A file is [exists, lines].  A line of a distance-matrix   *)
(* file is the list of its tab-separated fields after strip(); a blank     *)
(* line is the empty list.  A field is Num(v) (text that int() reads as v), *)
(* BLANK (whitespace only) or JUNK (text that int() rejects).              *)
(***************************************************************************)
Num(v) == [t |-> "num", v |-> v]

BLANK == [t |-> "blank", v |-> 0]

JUNK == [t |-> "junk", v |-> 0]

NoFile == [exists |-> FALSE, lines |-> <<>>]

IsNumeric(field) == field.t = "num"

Error(kind, what, row) == [ok |-> FALSE, kind |-> kind, what |-> what, row |-> row]

(***************************************************************************)
(* read_distance_matrix(file_path)                                         *)
(***************************************************************************)
\* the data line (index k of lines[1:], file line k + 1) is kept
LineKept(line) == line # <<>> /\ Len(line) >= 2

\* [int(d) for d in parts[1:] if d.strip()]
LineDistances(line) ==
    LET kept == Filter(Tail(line), LAMBDA d : d # BLANK)
    IN  [k \in 1..Len(kept) |-> kept[k].v]

LineParses(line) == \A k \in 2..Len(line) : line[k] # BLANK => IsNumeric(line[k])

\* rows appended to distance_matrix by the lines lines[from..]
RECURSIVE KeptRows(_, _)
KeptRows(lines, from) ==
    IF from > Len(lines) THEN <<>>
    ELSE (IF LineKept(lines[from]) THEN <<LineDistances(lines[from])>> ELSE <<>>)
         \o KeptRows(lines, from + 1)

\* only the rows shorter than the row count are reported
RaggedRowsShortOnly(distance_matrix) ==
    {i \in 1..Len(distance_matrix) : Len(distance_matrix[i]) < Len(distance_matrix)}

\* the rows that fail the squareness check: len(row) != n
RaggedRows(distance_matrix) ==
    {i \in 1..Len(distance_matrix) : Len(distance_matrix[i]) # Len(distance_matrix)}

read_distance_matrix(file) ==
    IF ~file.exists THEN Error("FileNotFoundError", "missing", 0)
    ELSE IF Len(file.lines) < 2 THEN Error("ValueError", "too_few_lines", 0)
    ELSE LET lines == file.lines
             bad   == {k \in 2..Len(lines) : LineKept(lines[k]) /\ ~LineParses(lines[k])}
         IN  IF bad # {}
             THEN \* the first offending line raises; k is its 1-based line number
                  Error("ValueError", "bad_value", CHOOSE k \in bad : \A h \in bad : k <= h)
             ELSE LET distance_matrix == KeptRows(lines, 2)
                      n      == Len(distance_matrix)
                      ragged == RaggedRows(distance_matrix)
                  IN  IF n = 0 THEN Error("ValueError", "empty", 0)
                      ELSE IF ragged # {}
                      THEN Error("ValueError", "not_square",
                                 CHOOSE i \in ragged : \A h \in ragged : i <= h)
                      ELSE [ok |-> TRUE, distance_matrix |-> distance_matrix]

(***************************************************************************)
(* Period assignment shared by the two builders                            *)
(***************************************************************************)
\* [p for p in period_list if p <= time_num]
\* variant that keeps every candidate, whatever the horizon
HorizonFilterAll(period_list, time_num) == period_list

HorizonFilter(period_list, time_num) == Filter(period_list, LAMBDA q : q <= time_num)

\* [p for p in valid_period_list if p > time_to_depot]
DepotFilter(valid_period_list, time_to_depot) ==
    Filter(valid_period_list, LAMBDA q : q > time_to_depot)

\* a draw from every period within the horizon, whatever the time to the depot
ChoiceListUnfiltered(valid_period_list, time_to_depot) == valid_period_list

\* the list random.choice draws from for a target; valid_period_list # <<>>
ChoiceList(valid_period_list, time_to_depot) ==
    LET filtered_periods == DepotFilter(valid_period_list, time_to_depot)
    IN  IF filtered_periods = <<>> THEN <<Max(valid_period_list)>>
        ELSE filtered_periods

\* tuple standing for f'{name}N{target_num}D{drone_num}T{time_num}V{version}'
InstanceName(name, target_num, drone_num, time_num, version) ==
    <<name, target_num, drone_num, time_num, version>>

(***************************************************************************)
(* generate_case_from_distance_matrix: the set of its possible results     *)
(* (one per outcome of the random.choice calls).  Node i is index i + 1.   *)
(***************************************************************************)
\* travel_time of the pair (i, j), 0-based
MatrixTravelTime(distance_matrix, i, j, multiplier) ==
    LET distance == distance_matrix[i + 1][j + 1]
    IN  IF distance = DIAGONAL_MARKER \/ i = j THEN INFINITY_DISTANCE
        ELSE math_ceil(FMul(IntToFloat(distance), multiplier))

\* the rows built by the loop over the nodes, for the travel times `times`
\* (times[i][j + 1] is the travel time of the pair (i, j)), and the results
\* of the call: one per outcome of the random.choice calls
MatrixResults(distance_matrix, times, valid_period_list, basic_data, dir, name) ==
    LET node_num == Len(distance_matrix)
        time_to_depot == [i \in 1..(node_num - 1) |-> times[i][1]]
        options == [i \in 1..(node_num - 1) |->
                       ChoiceList(valid_period_list, time_to_depot[i])]
        warned == {i \in 1..(node_num - 1) :
                      DepotFilter(valid_period_list, time_to_depot[i]) = <<>>}
        choices == {ch \in [1..(node_num - 1) -> Range(valid_period_list)] :
                       \A i \in 1..(node_num - 1) : ch[i] \in Range(options[i])}
    IN  { [ok |-> TRUE,
           name |-> name,
           dir |-> dir,
           path |-> <<dir, name>>,
           basic_data |-> basic_data,
           target_data |-> [k \in 1..node_num |->
                               <<k - 1>> \o times[k - 1] \o
                               <<0, IF k = 1 THEN INFINITY_PERIOD ELSE ch[k - 1]>>],
           raw |-> distance_matrix,
           valid |-> valid_period_list,
           depot_time |-> time_to_depot,
           warned |-> warned,
           draws |-> options,
           times_computed |-> node_num * node_num] : ch \in choices }

generate_case_from_distance_matrix(file, output_dir, instance_name, version, c) ==
    LET rd == read_distance_matrix(file)
    IN  IF ~rd.ok THEN {rd @@ [times_computed |-> 0]}
        ELSE
        LET distance_matrix == rd.distance_matrix
            node_num   == Len(distance_matrix)
            target_num == node_num - 1
            multiplier == FDiv(c.time_num, c.base_time_horizon)
            scaled_drone_time   == int(FMul(IntToFloat(c.base_drone_time), multiplier))
            scaled_time_horizon == int(FMul(IntToFloat(c.base_time_horizon), multiplier))
            valid_period_list   == HorizonFilter(c.period_list, c.time_num)
        IN  IF valid_period_list = <<>>
            THEN {Error("ValueError", "no_valid_period", 0) @@ [times_computed |-> 0]}
            ELSE UNION {
                   MatrixResults(
                       distance_matrix, times, valid_period_list,
                       <<node_num, target_num, 0, scaled_drone_time, 0,
                         scaled_time_horizon, c.drone_num>>,
                       output_dir,
                       InstanceName(instance_name, target_num, c.drone_num,
                                    c.time_num, version)) :
                   times \in {[i \in 0..(node_num - 1) |->
                                 [j \in 1..node_num |->
                                     MatrixTravelTime(distance_matrix, i, j - 1,
                                                      multiplier)]]} }

(***************************************************************************)
(* generate_period.py: configuration tables                                *)
(***************************************************************************)
\* the keys of instance_dict, in insertion (iteration) order
InstanceKeys == <<"C1", "C2", "R1", "RC1">>

instance_dict == [C1 |-> "c101", C2 |-> "c201", R1 |-> "r102", RC1 |-> "rc101"]

drone_time_dict == [C1 |-> 90, C2 |-> 90, R1 |-> 90, RC1 |-> 110]

time_horizon_dict == [C1 |-> 108, C2 |-> 108, R1 |-> 108, RC1 |-> 132]

(***************************************************************************)
(* cal_distance(position_data)                                             *)
(***************************************************************************)
\* floor(sqrt(n)) by bisection on lo..hi
RECURSIVE ISqrtIn(_, _, _)
ISqrtIn(n, lo, hi) ==
    IF lo = hi THEN lo
    ELSE LET mid == (lo + hi + 1) \div 2
         IN  IF mid * mid <= n THEN ISqrtIn(n, mid, hi) ELSE ISqrtIn(n, lo, mid - 1)

ISqrt(n) == ISqrtIn(n, 0, 46340)

\* round(math.sqrt(dx^2 + dy^2), 2) in hundredths: the integer nearest to
\* 100 * sqrt(dx^2 + dy^2)
Hundredths(x, y) ==
    LET sq == (x[1] - y[1]) * (x[1] - y[1]) + (x[2] - y[2]) * (x[2] - y[2])
    IN  (ISqrt(40000 * sq) + 1) \div 2

\* the distance table in hundredths; the float entry is h / 100
cal_distance(position_data) ==
    [i \in 1..Len(position_data) |->
        [j \in 1..Len(position_data) |->
            IF i = j THEN 100 * INFINITY_DISTANCE
            ELSE Hundredths(position_data[i], position_data[j])]]

\* the Python number stored in the table: the int INFINITY_DISTANCE on the
\* diagonal, the float round(euclidean_dist, 2) elsewhere
DistanceValue(distance_data, i, j) ==
    IF i = j THEN IntToFloat(INFINITY_DISTANCE)
    ELSE FDiv(distance_data[i][j], 100)

(***************************************************************************)
(* generate_period_v2: the set of its possible results.  A line of a       *)
(* Solomon file is the list of its fields (split on six spaces); a field   *)
(* is an integer or JUNK (text that int() rejects, the empty string of a   *)
(* blank line included).                                                   *)
(***************************************************************************)
Min(a, b) == IF a <= b THEN a ELSE b

\* the rows built by the loop over the nodes, for the travel times `times`,
\* and the results of the call: one per outcome of the random.choice calls
PeriodResults(distance_data, times, new_period_list, basic_data, dir, name) ==
    LET n == Len(distance_data)
        time_to_depot == [i \in 1..(n - 1) |-> times[i][1]]
        options == [i \in 1..(n - 1) |-> ChoiceList(new_period_list, time_to_depot[i])]
        choices == {ch \in [1..(n - 1) -> Range(new_period_list)] :
                       \A i \in 1..(n - 1) : ch[i] \in Range(options[i])}
    IN  { [ok |-> TRUE,
           name |-> name,
           dir |-> dir,
           path |-> <<dir, name>>,
           basic_data |-> basic_data,
           target_data |-> [k \in 1..n |->
                               <<k - 1>> \o times[k - 1] \o
                               <<0, IF k = 1 THEN INFINITY_PERIOD ELSE ch[k - 1]>>],
           raw |-> distance_data,
           valid |-> new_period_list,
           depot_time |-> time_to_depot,
           warned |-> {},
           draws |-> options,
           times_computed |-> n * n] : ch \in choices }

generate_period_v2(file, ins_type, version, instance_pos, c) ==
    IF ~file.exists
    THEN {Error("FileNotFoundError", "missing", 0) @@ [times_computed |-> 0]}
    ELSE
    LET txt  == SubSeq(file.lines, SOLOMON_HEADER_LINES + 1, Len(file.lines))
        used == Min(Len(txt), c.target_num + 1)
        bad  == {k \in 1..used :
                    (\E f \in 1..Len(txt[k]) : ~IsNumeric(txt[k][f])) \/ Len(txt[k]) < 3}
    IN  IF bad # {}
        THEN LET k == CHOOSE h \in bad : \A g \in bad : h <= g
             IN  {Error(IF \E f \in 1..Len(txt[k]) : ~IsNumeric(txt[k][f])
                        THEN "ValueError" ELSE "IndexError", "bad_line", k)
                  @@ [times_computed |-> 0]}
        ELSE
        LET position_data    == [k \in 1..used |-> <<txt[k][2].v, txt[k][3].v>>]
            drone_time       == drone_time_dict[ins_type]
            planning_horizon == time_horizon_dict[ins_type]
            multiplier       == FDiv(c.time_num, planning_horizon)
            new_period_list  == HorizonFilter(c.period_list, c.time_num)
            distance_data    == cal_distance(position_data)
            n                == Len(distance_data)
        IN  IF n >= 2 /\ new_period_list = <<>>
            THEN \* max(new_period_list) raises while the row of node 1 is built
                 {Error("ValueError", "max_of_empty", 0) @@ [times_computed |-> 2 * n]}
            ELSE UNION {
                   PeriodResults(
                       distance_data, times, new_period_list,
                       <<n, c.target_num, 0,
                         int(FMul(IntToFloat(drone_time), multiplier)), 0,
                         int(FMul(IntToFloat(planning_horizon), multiplier)),
                         c.drone_num>>,
                       <<instance_pos, ins_type>>,
                       InstanceName(ins_type, c.target_num, c.drone_num, c.time_num,
                                    version)) :
                   times \in {[i \in 0..(n - 1) |->
                                 [j \in 1..n |->
                                     math_ceil(FMul(DistanceValue(distance_data, i + 1, j),
                                                    multiplier))]]} }

(***************************************************************************)
(* Bounds of the model and the inputs drawn within them                    *)
(***************************************************************************)
\* versions generated per instance type (version_range has 5 in both scripts)
NumVersions == 2

\* largest number of nodes of a distance-matrix file
MaxNodes == 2

\* largest number of data lines of a Solomon file
MaxData == 2

\* largest target_num handed to generate_period_v2
MaxTargets == 2

\* raw distances of the matrix files
Dist == {42, 81}

\* node coordinates of the Solomon files
Coords == {<<0, 0>>, <<30, 41>>, <<90, 120>>}

PeriodList == <<3, 6, 12, 18, 24>>

Cfg(time_num, base_time_horizon, base_drone_time, drone_num, target_num, period_list) ==
    [time_num |-> time_num, base_time_horizon |-> base_time_horizon,
     base_drone_time |-> base_drone_time, drone_num |-> drone_num,
     target_num |-> target_num, period_list |-> period_list]

\* arguments of generate_case_from_distance_matrix: its defaults, the values
\* of the __main__ block, and other scaling contexts
MatrixConfigs ==
    { Cfg(12, 108, 90, 30, 0, PeriodList),
      Cfg(12, 21600, 18000, 50, 0, PeriodList),
      Cfg(9, 14, 11, 30, 0, PeriodList),
      Cfg(1, 49, 90, 30, 0, <<1>> \o PeriodList),
      Cfg(2, 108, 90, 30, 0, PeriodList),
      Cfg(INFINITY_PERIOD, INFINITY_PERIOD, 90, 30, 0, <<3, INFINITY_PERIOD>>) }

\* arguments of generate_period_v2 (18 is the time_num of its __main__ block)
PeriodConfigs ==
    { Cfg(time_num, 0, 0, 100, target_num, PeriodList) :
        time_num \in {2, 18}, target_num \in 0..MaxTargets }

\* a well-formed matrix file: a header line, then "id d1 ... dn" per node
SquareMatrices(n) ==
    {M \in [1..n -> [1..n -> Dist \cup {DIAGONAL_MARKER}]] :
        \A i, j \in 1..n : (M[i][j] = DIAGONAL_MARKER) <=> (i = j)}

HeaderLine == <<JUNK, Num(1)>>

MatrixLines(M) ==
    <<HeaderLine>> \o
    [i \in 1..Len(M) |-> <<Num(i)>> \o [j \in 1..Len(M) |-> Num(M[i][j])]]

\* one departure from the well-formed file, at data row r
Damages(n) ==
    {<<"none", 1>>} \cup
    ({"blank_row", "id_only", "drop_field", "extra_field", "junk_field",
      "plain_diagonal"} \X (1..n)) \cup
    (IF n >= 2 THEN {"blank_field", "marker_off_diagonal"} \X (1..n) ELSE {})

ReplaceAt(line, k, v) == [line EXCEPT ![k] = v]

DamageLine(line, r, n, kind) ==
    CASE kind = "blank_row"   -> <<>>
      [] kind = "id_only"     -> <<line[1]>>
      [] kind = "drop_field"  -> SubSeq(line, 1, Len(line) - 1)
      [] kind = "extra_field" -> Append(line, Num(42))
      [] kind = "junk_field"  -> ReplaceAt(line, Len(line), JUNK)
      [] kind = "blank_field" -> ReplaceAt(line, 2, BLANK)
      [] kind = "plain_diagonal" -> ReplaceAt(line, r + 1, Num(42))
      [] kind = "marker_off_diagonal" ->
             ReplaceAt(line, (r % n) + 2, Num(DIAGONAL_MARKER))
      [] OTHER -> line

Damaged(lines, n, dmg) ==
    [k \in 1..Len(lines) |->
        IF k = dmg[2] + 1 THEN DamageLine(lines[k], dmg[2], n, dmg[1]) ELSE lines[k]]

MatrixFiles ==
    {NoFile, [exists |-> TRUE, lines |-> <<>>], [exists |-> TRUE, lines |-> <<HeaderLine>>]}
    \cup UNION { { [exists |-> TRUE, lines |-> Damaged(MatrixLines(M), n, dmg)] :
                     M \in SquareMatrices(n), dmg \in Damages(n) } :
                 n \in 1..MaxNodes }

\* lines of a Solomon file after its header: "id x y", and a line that is
\* blank or not numeric
DataLines ==
    {<<Num(1), Num(xy[1]), Num(xy[2])>> : xy \in Coords} \cup {<<JUNK>>}

RECURSIVE SeqsUpTo(_, _)
SeqsUpTo(S, n) ==
    IF n = 0 THEN {<<>>}
    ELSE LET shorter == SeqsUpTo(S, n - 1)
         IN  shorter \cup {Append(q, e) : q \in {t \in shorter : Len(t) = n - 1}, e \in S}

SolomonHeader == [k \in 1..SOLOMON_HEADER_LINES |-> <<JUNK>>]

\* data sections of the Solomon files, and a file cut inside its header
SolomonFiles ==
    { [exists |-> TRUE, lines |-> SolomonHeader \o data] : data \in SeqsUpTo(DataLines, MaxData) }
    \cup { [exists |-> TRUE, lines |-> SubSeq(SolomonHeader, 1, 3)] }

\* which Solomon files exist: all of them, all but one, or none
ExistencePatterns ==
    {e \in [Range(InstanceKeys) -> BOOLEAN] :
        Cardinality({k \in Range(InstanceKeys) : ~e[k]}) \in {0, 1, Len(InstanceKeys)}}

(***************************************************************************)
(* The two scripts.  prog says which one runs; the other's inputs are      *)
(* absent.  fs and dirs are the instance files and directories created,    *)
(* last is the result of the latest builder call (its return value or its  *)
(* exception, with the rows it wrote), out is what the script printed,     *)
(* attempts the builder calls made so far, exit_code the status the        *)
(* process ends with (0 unless exit(1) is called).                         *)
(***************************************************************************)
VARIABLES prog, cfg, mfile, sdata, sexists, pc, ki, vi, cur, generated_instances,
          instance_list, out, attempts, exit_code, fs, dirs, last

vars == <<prog, cfg, mfile, sdata, sexists, pc, ki, vi, cur, generated_instances,
          instance_list, out, attempts, exit_code, fs, dirs, last>>

instance_name == "SZ_Gusu"

OUTPUT_DIR == "input"

NoCall == [ok |-> FALSE, kind |-> "none", what |-> "none", row |-> 0,
           times_computed |-> 0]

NoCause == [kind |-> "none", what |-> "none", row |-> 0]

Printed(ev, key, version, cause, instances) ==
    [ev |-> ev, key |-> key, version |-> version, cause |-> cause,
     instances |-> instances]

Cause(r) == [kind |-> r.kind, what |-> r.what, row |-> r.row]

\* the Solomon file of an instance type: the files that exist share one
\* data section
SolomonFile(key) == IF sexists[key] THEN sdata ELSE NoFile

Init ==
    /\ prog \in {"matrix", "period"}
    /\ IF prog = "matrix"
       THEN /\ cfg \in MatrixConfigs
            /\ mfile \in MatrixFiles
            /\ sdata = NoFile
            /\ sexists = [k \in Range(InstanceKeys) |-> FALSE]
       ELSE /\ cfg \in PeriodConfigs
            /\ mfile = NoFile
            /\ sdata \in SolomonFiles
            /\ sexists \in ExistencePatterns
    /\ pc = "start"
    /\ ki = 1
    /\ vi = 1
    /\ cur = "none"
    /\ generated_instances = <<>>
    /\ instance_list = <<>>
    /\ out = <<>>
    /\ attempts = <<>>
    /\ exit_code = 0
    /\ fs = {}
    /\ dirs = {}
    /\ last = NoCall

(***************************************************************************)
(* generate_from_distance_matrix.py, __main__                              *)
(***************************************************************************)
\* a driver that enters its loop without the existence check
MatrixCheckFileSkipped ==
    /\ prog = "matrix" /\ pc = "start"
    /\ pc' = "loop"
    /\ UNCHANGED <<prog, cfg, mfile, sdata, sexists, ki, vi, cur, generated_instances,
                   instance_list, out, attempts, exit_code, fs, dirs, last>>

\* the existence check before the loop: exit(1) when the file is missing
MatrixCheckFile ==
    /\ prog = "matrix" /\ pc = "start"
    /\ IF ~mfile.exists
       THEN /\ out' = Append(out, Printed("missing_file", instance_name, 0, NoCause, <<>>))
            /\ exit_code' = 1
            /\ pc' = "exited"
       ELSE /\ pc' = "loop"
            /\ UNCHANGED <<out, exit_code>>
    /\ UNCHANGED <<prog, cfg, mfile, sdata, sexists, ki, vi, cur, generated_instances,
                   instance_list, attempts, fs, dirs, last>>

\* an iteration whose builder creates the output directory before it loads
\* and validates its input
MatrixAttemptDirFirst ==
    /\ prog = "matrix" /\ pc = "loop" /\ vi <= NumVersions
    /\ \E r \in generate_case_from_distance_matrix(mfile, OUTPUT_DIR, instance_name, vi, cfg) :
          /\ last' = r
          /\ dirs' = dirs \cup {OUTPUT_DIR}
          /\ IF r.ok
             THEN /\ fs' = fs \cup {r.path}
                  /\ generated_instances' = Append(generated_instances, r.name)
                  /\ out' = out
             ELSE /\ out' = Append(out, Printed("failed", instance_name, vi, Cause(r), <<>>))
                  /\ UNCHANGED <<fs, generated_instances>>
    /\ attempts' = Append(attempts, <<instance_name, vi>>)
    /\ vi' = vi + 1
    /\ UNCHANGED <<prog, cfg, mfile, sdata, sexists, pc, ki, cur, instance_list, exit_code>>

\* one iteration of the version loop: the builder call inside try/except
MatrixAttempt ==
    /\ prog = "matrix" /\ pc = "loop" /\ vi <= NumVersions
    /\ \E r \in generate_case_from_distance_matrix(mfile, OUTPUT_DIR, instance_name, vi, cfg) :
          /\ last' = r
          /\ IF r.ok
             THEN /\ dirs' = dirs \cup {r.dir}
                  /\ fs' = fs \cup {r.path}
                  /\ generated_instances' = Append(generated_instances, r.name)
                  /\ out' = out
             ELSE /\ out' = Append(out, Printed("failed", instance_name, vi, Cause(r), <<>>))
                  /\ UNCHANGED <<dirs, fs, generated_instances>>
    /\ attempts' = Append(attempts, <<instance_name, vi>>)
    /\ vi' = vi + 1
    /\ UNCHANGED <<prog, cfg, mfile, sdata, sexists, pc, ki, cur, instance_list, exit_code>>

\* the summary after the loop; the script then ends normally
MatrixSummary ==
    /\ prog = "matrix" /\ pc = "loop" /\ vi > NumVersions
    /\ out' = Append(out, Printed("summary", instance_name, 0, NoCause, generated_instances))
    /\ pc' = "done"
    /\ UNCHANGED <<prog, cfg, mfile, sdata, sexists, ki, vi, cur, generated_instances,
                   instance_list, attempts, exit_code, fs, dirs, last>>

(***************************************************************************)
(* generate_period.py, __main__                                            *)
(***************************************************************************)
\* the head of the loop over instance_dict: a missing file skips the type
PeriodNextType ==
    /\ prog = "period" /\ pc = "start" /\ ki <= Len(InstanceKeys)
    /\ LET key == InstanceKeys[ki]
       IN  IF ~SolomonFile(key).exists
           THEN /\ out' = Append(out, Printed("warn_missing", key, 0, NoCause, <<>>))
                /\ ki' = ki + 1
                /\ UNCHANGED <<pc, vi, cur, instance_list>>
           ELSE /\ instance_list' = <<>>
                /\ cur' = key
                /\ vi' = 1
                /\ pc' = "loop"
                /\ UNCHANGED <<out, ki>>
    /\ UNCHANGED <<prog, cfg, mfile, sdata, sexists, generated_instances, attempts,
                   exit_code, fs, dirs, last>>

\* an iteration without the try/except: a failure ends the script
PeriodAttemptUncaught ==
    /\ prog = "period" /\ pc = "loop" /\ vi <= NumVersions
    /\ \E r \in generate_period_v2(SolomonFile(cur), cur, vi, OUTPUT_DIR, cfg) :
          /\ last' = r
          /\ IF r.ok
             THEN /\ dirs' = dirs \cup {r.dir}
                  /\ fs' = fs \cup {r.path}
                  /\ instance_list' = Append(instance_list, r.name)
                  /\ UNCHANGED <<out, pc, exit_code>>
             ELSE /\ out' = Append(out, Printed("failed", cur, vi, Cause(r), <<>>))
                  /\ pc' = "exited"
                  /\ exit_code' = 1
                  /\ UNCHANGED <<dirs, fs, instance_list>>
    /\ attempts' = Append(attempts, <<cur, vi>>)
    /\ vi' = vi + 1
    /\ UNCHANGED <<prog, cfg, mfile, sdata, sexists, ki, cur, generated_instances>>

\* one iteration of the version loop: the builder call inside try/except
PeriodAttempt ==
    /\ prog = "period" /\ pc = "loop" /\ vi <= NumVersions
    /\ \E r \in generate_period_v2(SolomonFile(cur), cur, vi, OUTPUT_DIR, cfg) :
          /\ last' = r
          /\ IF r.ok
             THEN /\ dirs' = dirs \cup {r.dir}
                  /\ fs' = fs \cup {r.path}
                  /\ instance_list' = Append(instance_list, r.name)
                  /\ out' = out
             ELSE /\ out' = Append(out, Printed("failed", cur, vi, Cause(r), <<>>))
                  /\ UNCHANGED <<dirs, fs, instance_list>>
    /\ attempts' = Append(attempts, <<cur, vi>>)
    /\ vi' = vi + 1
    /\ UNCHANGED <<prog, cfg, mfile, sdata, sexists, pc, ki, cur, generated_instances,
                   exit_code>>

\* the per-type listing after the version loop
PeriodTypeSummary ==
    /\ prog = "period" /\ pc = "loop" /\ vi > NumVersions
    /\ out' = Append(out, Printed("summary", cur, 0, NoCause, instance_list))
    /\ ki' = ki + 1
    /\ pc' = "start"
    /\ UNCHANGED <<prog, cfg, mfile, sdata, sexists, vi, cur, generated_instances,
                   instance_list, attempts, exit_code, fs, dirs, last>>

\* the closing banner; the script then ends normally
PeriodFinish ==
    /\ prog = "period" /\ pc = "start" /\ ki > Len(InstanceKeys)
    /\ out' = Append(out, Printed("finished", "all", 0, NoCause, <<>>))
    /\ pc' = "done"
    /\ UNCHANGED <<prog, cfg, mfile, sdata, sexists, ki, vi, cur, generated_instances,
                   instance_list, attempts, exit_code, fs, dirs, last>>

Next ==
    \/ MatrixCheckFile
    \/ MatrixAttempt
    \/ MatrixSummary
    \/ PeriodNextType
    \/ PeriodAttempt
    \/ PeriodTypeSummary
    \/ PeriodFinish

Spec == Init /\ [][Next]_vars

(***************************************************************************)
(* Properties of the instance built by the latest builder call.            *)
(* A row of target_data is <<id, t_0, ..., t_(N-1), begin, period>>.       *)
(***************************************************************************)
\* the builder that ran last got past its loader
InputAccepted == last.ok \/ last.what \in {"no_valid_period", "max_of_empty"}

\* the number of nodes the latest call read from its accepted input
NodesRead ==
    IF prog = "matrix" THEN Len(mfile.lines) - 1
    ELSE Min(Len(sdata.lines) - SOLOMON_HEADER_LINES, cfg.target_num + 1)

\* the candidate periods within the target horizon
Candidates == {q \in Range(cfg.period_list) : q <= cfg.time_num}

\* the scaling context of the latest successful call
BaseHorizon ==
    IF prog = "matrix" THEN cfg.base_time_horizon ELSE time_horizon_dict[last.dir[2]]

BaseEndurance ==
    IF prog = "matrix" THEN cfg.base_drone_time ELSE drone_time_dict[last.dir[2]]

\* ceil(a / b) and floor(a / b) of the exact quotient, b > 0
CeilDiv(a, b) == (a + b - 1) \div b

FloorDiv(a, b) == a \div b

\* C1: in every instance built by either builder, the travel time written
\* for each diagonal pair (i, i) is INFINITY_DISTANCE.
C1_DiagonalIsSentinel ==
    last.ok =>
        \A k \in 1..Len(last.target_data) :
            last.target_data[k][k + 1] = INFINITY_DISTANCE

\* the exact value ceil(raw_distance * time_num / base horizon) of the pair
\* of rows i, j (1-based); a Solomon distance is a number of hundredths
ExactTravelTime(i, j) ==
    IF prog = "matrix"
    THEN IF last.raw[i][j] = DIAGONAL_MARKER THEN INFINITY_DISTANCE
         ELSE CeilDiv(last.raw[i][j] * cfg.time_num, BaseHorizon)
    ELSE CeilDiv(last.raw[i][j] * cfg.time_num, 100 * BaseHorizon)

\* C2: for every ordered pair i # j of a built instance, the travel time is
\* ceil(raw_distance(i, j) * time_num / base_time_horizon), and it is
\* INFINITY_DISTANCE where the raw distance is the diagonal marker.
C2_TravelTimeIsCeiling ==
    last.ok =>
        \A i, j \in 1..Len(last.target_data) :
            i # j => last.target_data[i][j + 1] = ExactTravelTime(i, j)

\* C3: every target of a built instance has a period above its time to the
\* depot, or no candidate within the horizon is above that time and its
\* period is the largest candidate.
C3_PeriodAboveDepotTime ==
    last.ok =>
        \A k \in 2..Len(last.target_data) :
            LET row == last.target_data[k]
                period == row[Len(row)]
                time_to_depot == row[2]
            IN  \/ period > time_to_depot
                \/ /\ \A q \in Candidates : q <= time_to_depot
                   /\ period \in Candidates
                   /\ \A q \in Candidates : q <= period

\* a target took the fallback period in a built instance while another
\* target, or another run, could choose among several periods
C3_FallbackTaken ==
    /\ last.ok
    /\ \E k \in 2..Len(last.target_data) :
          LET row == last.target_data[k]
          IN  /\ row[Len(row)] <= row[2]
              /\ Cardinality(Candidates) >= 2

\* C4: when no candidate period is within the target horizon, the builder
\* fails with its configuration error before any travel time is computed,
\* whatever the number of nodes.
C4_NoCandidateFailsFirst ==
    (InputAccepted /\ NodesRead >= 1 /\ Candidates = {}) =>
        /\ ~last.ok
        /\ last.what = "no_valid_period"
        /\ last.times_computed = 0

(***************************************************************************)
(* Properties of the batch drivers                                         *)
(***************************************************************************)
Ended == pc \in {"done", "exited"}

\* the (type, version) pairs of the configured set whose input file exists
ExpectedPairs ==
    IF prog = "matrix"
    THEN (IF mfile.exists THEN {instance_name} ELSE {}) \X (1..NumVersions)
    ELSE {k \in Range(InstanceKeys) : sexists[k]} \X (1..NumVersions)

\* the pairs whose instance file was written, and the pairs reported as failed
GeneratedPairs == {<<f[2][1], f[2][5]>> : f \in fs}

FailedPairs == {<<e.key, e.version>> : e \in {x \in Range(out) : x.ev = "failed"}}

\* the file names listed by the summaries printed so far
Listed == UNION {Range(e.instances) : e \in {x \in Range(out) : x.ev = "summary"}}

\* the guard of some step of the running script holds
StepDefined ==
    \/ pc = "start" /\ (prog = "matrix" \/ ki <= Len(InstanceKeys) + 1)
    \/ pc = "loop" /\ vi <= NumVersions + 1

\* the number of steps the script has left at most
StepsLeft ==
    IF Ended THEN 0
    ELSE IF prog = "matrix"
    THEN (IF pc = "start" THEN NumVersions + 3 ELSE NumVersions + 2 - vi)
    ELSE (Len(InstanceKeys) - ki) * (NumVersions + 2)
         + (IF pc = "start" THEN NumVersions + 3 ELSE NumVersions + 3 - vi)

\* what holds of the attempts made so far and of the end of a driver
AttemptsSound ==
    /\ \A k \in 1..Len(attempts) :
          /\ attempts[k] \in ExpectedPairs
          /\ \A h \in 1..Len(attempts) : attempts[h] = attempts[k] => h = k
          /\ (attempts[k] \in GeneratedPairs) # (attempts[k] \in FailedPairs)
    /\ pc = "done" =>
          /\ Range(attempts) = ExpectedPairs
          /\ out # <<>> /\ out[Len(out)].ev \in {"summary", "finished"}
          /\ \A f \in fs : f[2] \in Listed
          /\ \A e \in Range(out) : e.ev = "failed" => e.cause.kind # "none"
    /\ pc = "exited" => prog = "matrix" /\ ~mfile.exists /\ attempts = <<>>

\* C5 (as amended): no pair is attempted twice and only pairs whose input
\* file exists are attempted; a driver that is not over has a next step,
\* whatever failed before, and every step brings its end nearer; it ends
\* either at its final summary with every such pair attempted, each one
\* generated and listed in a summary or reported as failed with its cause
\* when it failed, or, for the matrix driver whose file is missing, at
\* exit(1) with no attempt made.
C5_EveryPairAttemptedOnce ==
    /\ [](AttemptsSound /\ (~Ended => StepDefined))
    /\ [][StepsLeft' < StepsLeft]_vars

\* a driver reached its end after a failed attempt that later attempts
\* followed
C5_FailureThenLaterAttempts ==
    /\ pc = "done"
    /\ Len(attempts) >= 2
    /\ attempts[1] \in FailedPairs

\* C5 (as stated): the driver always reaches its final summary, and the
\* summary lists every generated file name and every failed pair with its
\* cause.
C5_SummaryListsFailures ==
    Ended =>
        /\ \E e \in Range(out) : e.ev \in {"summary", "finished"}
        /\ \A f \in fs : f[2] \in Listed
        /\ \A k \in 1..Len(out) :
              out[k].ev = "failed" =>
                  \E h \in (k + 1)..Len(out) :
                      /\ out[h].ev = "summary"
                      /\ out[h].key = out[k].key
                      /\ out[h].cause = out[k].cause

\* C6: generate_period_v2 reads exactly target_num + 1 coordinate pairs
\* whenever it succeeds, and it fails when the file has fewer than
\* target_num + 1 data lines after the header.
C6_LoaderYieldsAllNodes ==
    (prog = "period" /\ last # NoCall) =>
        /\ last.ok => Len(last.target_data) = cfg.target_num + 1
        /\ Len(sdata.lines) - SOLOMON_HEADER_LINES < cfg.target_num + 1 => ~last.ok

\* the file lines of the data rows read_distance_matrix keeps (line k holds
\* data row k - 1), the number of distances of a line, and the kept lines
\* whose number of distances is not the number of kept rows
KeptLines == {k \in 2..Len(mfile.lines) : Len(mfile.lines[k]) >= 2}

RowWidth(k) ==
    Cardinality({f \in 2..Len(mfile.lines[k]) : mfile.lines[k][f] # BLANK})

AllNumeric ==
    \A k \in KeptLines : \A f \in 2..Len(mfile.lines[k]) : mfile.lines[k][f] # JUNK

WrongWidth == {k \in KeptLines : RowWidth(k) # Cardinality(KeptLines)}

\* data row r is as a row of a square file: kept, with one distance per data
\* row of the file
WellFormedRow(r) ==
    /\ r + 1 \in KeptLines
    /\ RowWidth(r + 1) = Len(mfile.lines) - 1

\* C7 (as amended): read_distance_matrix never returns a non-square table;
\* a numeric file whose kept rows do not all have as many distances as
\* there are kept rows fails with the ValueError of the squareness check,
\* which names the first kept row of the wrong length, counted among the
\* kept rows: that is a malformed row of the file when no row was dropped.
\* The driver goes on to its remaining versions and its summary.
C7_NonSquareRejected ==
    (prog = "matrix" /\ last # NoCall) =>
        /\ last.ok => \A i \in 1..Len(last.raw) : Len(last.raw[i]) = Len(last.raw)
        /\ (Len(mfile.lines) >= 2 /\ AllNumeric /\ WrongWidth # {}) =>
              /\ ~last.ok /\ last.kind = "ValueError" /\ last.what = "not_square"
              /\ \E first \in WrongWidth :
                    /\ \A k \in WrongWidth : first <= k
                    /\ last.row = Cardinality({k \in KeptLines : k <= first})
              /\ KeptLines = 2..Len(mfile.lines) => ~WellFormedRow(last.row)
              /\ pc = "done" => Len(attempts) = NumVersions

\* a file with a ragged row and no dropped row was rejected at every version
\* and the driver reached its summary
C7_RaggedFileRejected ==
    /\ prog = "matrix" /\ pc = "done"
    /\ ~last.ok /\ last.what = "not_square"
    /\ KeptLines = 2..Len(mfile.lines)
    /\ Len(attempts) = NumVersions

\* C7 (as stated): the row named by the squareness error is a row of the
\* file that is malformed, also when a row was dropped.
C7_NamesMalformedRow ==
    (prog = "matrix" /\ ~last.ok /\ last.what = "not_square") => ~WellFormedRow(last.row)

\* C8: a written instance has node_num rows, target_num = node_num - 1 in
\* its header, rows in ascending node id from 0, and in every row node_num
\* travel times followed by begin = 0 and one period.
C8_ConsistentShape ==
    last.ok =>
        LET N == last.basic_data[1]
        IN  /\ N = Len(last.target_data)
            /\ last.basic_data[2] = N - 1
            /\ \A k \in 1..Len(last.target_data) :
                  /\ last.target_data[k][1] = k - 1
                  /\ Len(last.target_data[k]) = N + 3
                  /\ last.target_data[k][N + 2] = 0

\* C9: the header's drone endurance is floor(base_drone_time * time_num /
\* base horizon), and its End field is time_num whenever time_num divides
\* the base horizon.
C9_HeaderScaling ==
    last.ok =>
        /\ last.basic_data[4] = FloorDiv(BaseEndurance * cfg.time_num, BaseHorizon)
        /\ BaseHorizon % cfg.time_num = 0 => last.basic_data[6] = cfg.time_num

\* an input file of a whole instance type is missing
InputMissing ==
    IF prog = "matrix" THEN ~mfile.exists ELSE \E k \in Range(InstanceKeys) : ~sexists[k]

\* C10 (as amended): the matrix driver ends with exit code 1 exactly when
\* its matrix file is missing, before any attempt; the period driver skips
\* a type whose file is missing and ends with exit code 0; failed attempts
\* never change the exit code.
C10_ExitCode ==
    /\ exit_code \in {0, 1}
    /\ exit_code = 1 => Ended /\ attempts = <<>>
    /\ Ended => (exit_code = 1 <=> (prog = "matrix" /\ ~mfile.exists))

\* the period driver ended with exit code 0 although a Solomon file was
\* missing and attempts failed
C10_PeriodEndsWithZero ==
    /\ prog = "period" /\ pc = "done"
    /\ InputMissing
    /\ FailedPairs # {}
    /\ exit_code = 0

\* C10 (as stated): a driver ends with a failure exit code if and only if
\* the input file of a whole instance type is missing.
C10_FailureIffInputMissing ==
    Ended => (exit_code = 1 <=> InputMissing)

(***************************************************************************)
(* Properties of the period assignment                                     *)
(***************************************************************************)
\* the periods a target may draw when its threshold is the time t: the
\* candidates above t, or the largest candidate when there is none
AllowedPeriods(t) ==
    IF \E q \in Candidates : q > t THEN {q \in Candidates : q > t}
    ELSE {q \in Candidates : \A w \in Candidates : w <= q}

\* C11: for every target i > 0 of a built instance, the list its period is
\* drawn from is filtered with the travel time from node 0 to node i (row
\* 0, column i of the written time table), also for a table that is not
\* symmetric.
C11_ThresholdIsDepotToNode ==
    last.ok =>
        \A i \in 1..(Len(last.target_data) - 1) :
            Range(last.draws[i]) = AllowedPeriods(last.target_data[1][i + 2])

\* the targets of the latest built instance that took the fallback: no
\* candidate is above the time written in column 0 of their row
FallbackNodes ==
    {i \in 1..(Len(last.target_data) - 1) :
        \A q \in Candidates : q <= last.target_data[i + 1][2]}

\* C12: in both builders a warning is printed for node i exactly when node
\* i takes the fallback, and the build goes on to write the instance.
C12_WarningIffFallback ==
    last.ok => last.warned = FallbackNodes

(***************************************************************************)
(* Effects of a builder call on the file system                            *)
(***************************************************************************)
\* C13: a builder call that fails in loading, scaling or period assignment
\* leaves the file system as it was: it creates no directory and no
\* instance file.
C13_FailedCallLeavesFilesAlone ==
    [][(attempts' # attempts /\ ~last'.ok) => (fs' = fs /\ dirs' = dirs)]_vars

\* a call of generate_period_v2 failed in the period assignment, after its
\* first rows were built, and no directory or file exists
C13_LateFailureWroteNothing ==
    /\ attempts # <<>>
    /\ ~last.ok /\ last.what = "max_of_empty" /\ last.times_computed > 0
    /\ fs = {} /\ dirs = {}

\* the period written in the row of node k - 1 (the last field of the row)
AssignedPeriod(k) == last.target_data[k][Len(last.target_data[k])]

\* C14: in every built instance whose candidates within the horizon do not
\* contain INFINITY_PERIOD, each row carries one period; the period of every
\* target is a candidate within the horizon, taken from the one choice made
\* for that target, and differs from INFINITY_PERIOD; the depot carries
\* INFINITY_PERIOD and no choice is made for it.
C14_TargetsGetCandidatePeriods ==
    last.ok =>
        LET N == Len(last.target_data)
        IN  /\ Len(last.draws) = Cardinality(2..N)
            /\ \A k \in 1..N : Len(last.target_data[k]) = N + 3
            /\ N >= 1 => AssignedPeriod(1) = INFINITY_PERIOD
            /\ \A k \in 2..N :
                   /\ AssignedPeriod(k) \in Range(last.draws[k - 1])
                   /\ AssignedPeriod(k) \in Candidates
                   /\ INFINITY_PERIOD \notin Candidates =>
                          AssignedPeriod(k) # INFINITY_PERIOD

\* a target was built for which the choice had more than one option
C14_ChoiceAmongSeveral ==
    /\ attempts # <<>>
    /\ last.ok
    /\ \E i \in 1..Len(last.draws) :
           /\ Cardinality(Range(last.draws[i])) >= 2
           /\ AssignedPeriod(i + 1) < cfg.time_num

\* C14 as stated: in every built instance the depot is the only node whose
\* period is INFINITY_PERIOD.
C14_OnlyDepotHasSentinel ==
    last.ok =>
        \A k \in 2..Len(last.target_data) : AssignedPeriod(k) # INFINITY_PERIOD

====
